---- MODULE Spec2Model ----
(***************************************************************************)
(* Verification model of PlayableEnvironments' I/O glue:                   *)
(*   - dataset/acquisition/utils/remove_camera_folder.py (SpecFlatten)     *)
(*   - evaluation/reconstructed_camera_manipulation_dataset_creator.py     *)
(*       path rewriting and folder creation (SpecPaths),                   *)
(*       use_first_observation (SpecTensor),                               *)
(*       the reconstruct_dataset loop (Spec).                              *)
(* Strings are sequences of one-character strings, paths on disk are       *)
(* sequences of names, a filesystem is a function from the existing paths  *)
(* to their nodes.                                                         *)
(***************************************************************************)
EXTENDS Integers, Sequences, FiniteSets, TLC

VARIABLES
    \* --- remove_camera_folder.py -------------------------------------
    fs,          \* the tree below root_directory: path -> [kind, data]
    pc,          \* position of the __main__ script
    topList,     \* top_level_directories still to iterate
    videoList,   \* video_paths_list still to iterate
    calls,       \* history: <<[path, ok]>> of remove_camera_folder calls
    last,        \* history: the last call (pre-state, glob order, outcome)
    fs0,         \* history: the tree when the script started
    \* --- dataset creator: paths --------------------------------------
    heap,        \* numpy arrays by reference (a reference is an index)
    obsRef,      \* batch.observations_paths
    outRef,      \* output_paths (0 while not computed)
    output_root, \* self.output_root
    cwd,         \* working directory of the process (list of names)
    dirs,        \* existing directories (absolute lists of names)
    ppc,         \* position in lines 158-161
    obs0,        \* history: observations_paths before the call
    \* --- dataset creator: tensors ------------------------------------
    tensor,      \* scene_encoding[key]
    tensor0,     \* history: the tensor the model returned
    applied,     \* how many times use_first_observation was applied
    \* --- dataset creator: reconstruct_dataset ------------------------
    rpc,         \* position in reconstruct_dataset
    dataset_len, \* len(self.dataset)
    sampler,     \* the order in which the dataloader draws the dataset's items
    batch_size,  \* config batch_size
    batch_idx,   \* index of the batch in progress
    trace        \* history: the external calls made, in order

vars == <<fs, pc, topList, videoList, calls, last, fs0,
          heap, obsRef, outRef, output_root, cwd, dirs, ppc, obs0,
          tensor, tensor0, applied,
          rpc, dataset_len, sampler, batch_size, batch_idx, trace>>

flattenVars == <<fs, pc, topList, videoList, calls, last, fs0>>
pathVars    == <<heap, obsRef, outRef, output_root, cwd, dirs, ppc, obs0>>
tensorVars  == <<tensor, tensor0, applied>>
reconVars   == <<rpc, dataset_len, sampler, batch_size, batch_idx, trace>>

(***************************************************************************)
(* Generic helpers                                                         *)
(***************************************************************************)
Min(a, b) == IF a < b THEN a ELSE b

\* All orderings of a finite set, as sequences
Perms(S) == {s \in [1..Cardinality(S) -> S] : \A i, j \in 1..Cardinality(S) : s[i] = s[j] => i = j}

IsPrefix(a, b) == Len(a) <= Len(b) /\ SubSeq(b, 1, Len(a)) = a

\* Code point of a character (str comparison is by code point)
Ord(c) ==
    CASE c = "." -> 46
      [] c = "/" -> 47
      [] c = "0" -> 48
      [] c = "a" -> 97
      [] c = "c" -> 99
      [] c = "d" -> 100
      [] c = "f" -> 102
      [] c = "h" -> 104
      [] c = "m" -> 109
      [] c = "n" -> 110
      [] c = "o" -> 111
      [] c = "p" -> 112
      [] c = "q" -> 113
      [] c = "s" -> 115
      [] c = "t" -> 116
      [] c = "v" -> 118
      [] c = "w" -> 119
      [] c = "x" -> 120
      [] OTHER   -> 0

\* a < b for Python strings
RECURSIVE StrLess(_, _)
StrLess(a, b) ==
    IF b = <<>> THEN FALSE
    ELSE IF a = <<>> THEN TRUE
    ELSE IF a[1] # b[1] THEN Ord(a[1]) < Ord(b[1])
    ELSE StrLess(Tail(a), Tail(b))

(***************************************************************************)
(* remove_camera_folder.py: the filesystem                                 *)
(***************************************************************************)
camera_folder_name == <<"0", "0", "0", "0", "0">>

FileNode(d) == [kind |-> "file", data |-> d]
DirNode     == [kind |-> "dir", data |-> 0]

Exists(f, p) == p \in DOMAIN f
isdir(f, p)  == p \in DOMAIN f /\ f[p].kind = "dir"

\* os.path.join(directory, name) and os.path.basename on paths kept as lists of names
join(p, name) == Append(p, name)
basename(p)   == p[Len(p)]

Children(f, d) == {p \in DOMAIN f : Len(p) = Len(d) + 1 /\ IsPrefix(d, p)}
Under(f, d)    == {p \in DOMAIN f : Len(p) > Len(d) /\ IsPrefix(d, p)}
Tree(f, d)     == {p \in DOMAIN f : IsPrefix(d, p)}

\* glob's "*" does not match names that start with a dot
Hidden(name) == Len(name) > 0 /\ name[1] = "."

\* glob.glob(os.path.join(d, "*")): the matching paths, in directory order
\* (any order); nothing when d is no directory
glob(f, d) == IF isdir(f, d) THEN {p \in Children(f, d) : ~Hidden(basename(p))} ELSE {}

\* the path as the string sorted() compares
RECURSIVE PathStr(_)
PathStr(p) == IF p = <<>> THEN <<>> ELSE <<"/">> \o Head(p) \o PathStr(Tail(p))

\* sorted(paths)
RECURSIVE sorted(_)
sorted(S) ==
    IF S = {} THEN <<>>
    ELSE LET m == CHOOSE x \in S : \A y \in S \ {x} : StrLess(PathStr(x), PathStr(y))
         IN  <<m>> \o sorted(S \ {m})

\* [current_path for current_path in video_paths_list if os.path.isdir(current_path)]
RECURSIVE only_directories(_, _)
only_directories(f, l) ==
    IF l = <<>> THEN <<>>
    ELSE IF isdir(f, Head(l)) THEN <<Head(l)>> \o only_directories(f, Tail(l))
    ELSE only_directories(f, Tail(l))

Rebase(q, src, dst) == dst \o SubSeq(q, Len(src) + 1, Len(q))

\* os.rename(src, dst) on POSIX: a file replaces a file, a directory replaces
\* an empty directory, every other clash is an OSError
rename(f, src, dst) ==
    IF ~Exists(f, src) THEN [ok |-> FALSE, fs |-> f]
    ELSE IF Exists(f, dst) /\ f[src].kind # f[dst].kind THEN [ok |-> FALSE, fs |-> f]
    ELSE IF Exists(f, dst) /\ Under(f, dst) # {} THEN [ok |-> FALSE, fs |-> f]
    ELSE LET moved == Tree(f, src)
             dom   == (DOMAIN f \ (moved \cup {dst})) \cup {Rebase(q, src, dst) : q \in moved}
         IN  [ok |-> TRUE,
              fs |-> [q \in dom |->
                        IF \E o \in moved : Rebase(o, src, dst) = q
                        THEN f[CHOOSE o \in moved : Rebase(o, src, dst) = q]
                        ELSE f[q]]]

\* mutant of rmtree: shutil.rmtree(p, ignore_errors=True)
rmtree_ignore_errors(f, p) ==
    IF ~isdir(f, p) THEN [ok |-> TRUE, fs |-> f]
    ELSE [ok |-> TRUE, fs |-> [q \in DOMAIN f \ Tree(f, p) |-> f[q]]]

\* shutil.rmtree(p): raises when p is missing or is no directory
rmtree(f, p) ==
    IF ~isdir(f, p) THEN [ok |-> FALSE, fs |-> f]
    ELSE [ok |-> TRUE, fs |-> [q \in DOMAIN f \ Tree(f, p) |-> f[q]]]

\* the for loop of remove_camera_folder: stops at the first rename that raises
RECURSIVE rename_all(_, _, _, _)
rename_all(f, path, files, n) ==
    IF files = <<>> THEN [ok |-> TRUE, fs |-> f, moved |-> n]
    ELSE LET current_file == Head(files)
             new_location == join(path, basename(current_file))
             r            == rename(f, current_file, new_location)
         IN  IF r.ok THEN rename_all(r.fs, path, Tail(files), n + 1)
             ELSE [ok |-> FALSE, fs |-> f, moved |-> n]

\* remove_camera_folder(path), all_files being the order glob returned
remove_camera_folder(f, path, all_files) ==
    LET camera_folder_path == join(path, camera_folder_name)
        r == rename_all(f, path, all_files, 0)
    IN  IF ~r.ok THEN [ok |-> FALSE, fs |-> r.fs, moved |-> r.moved, err |-> "rename"]
        ELSE LET d == rmtree(r.fs, camera_folder_path)
             IN  [ok |-> d.ok, fs |-> d.fs, moved |-> r.moved,
                  err |-> IF d.ok THEN "none" ELSE "rmtree"]

\* the orders glob may return for the camera folder of path
all_files_orders(f, path) == Perms(glob(f, join(path, camera_folder_name)))

(***************************************************************************)
(* remove_camera_folder.py: the trees the script is started on             *)
(***************************************************************************)
TopDir     == <<<<"a">>>>                \* root/a
HiddenTop  == <<<<".", "t">>>>           \* root/.t
RootFile   == <<<<"x">>>>                \* root/x, a regular file
VideoV     == <<<<"a">>, <<"v">>>>       \* root/a/v
VideoW     == <<<<"a">>, <<"w">>>>       \* root/a/w
HiddenVid  == <<<<"a">>, <<".", "h">>>>  \* root/a/.h
PlainFile  == <<<<"a">>, <<"n">>>>       \* root/a/n, a regular file
HiddenTopVideo == <<<<".", "t">>, <<"v">>>>

\* one node of a tree: <<path, node>>
F(p, d) == <<p, FileNode(d)>>
D(p)    == <<p, DirNode>>

\* a video directory P: its camera folder (absent, a file or a directory), the
\* entries p, q, .m of the camera folder and the entries p, q P already has
VideoEntries(P, L, base) ==
    LET C == join(P, camera_folder_name) IN
    {D(P)}
    \cup (IF L.k = "file" THEN {F(C, base + 8)} ELSE {})
    \cup (IF L.k = "dir" THEN
            {D(C)}
            \cup (CASE L.ip = "file" -> {F(join(C, <<"p">>), base + 1)}
                    [] L.ip = "dir"  -> {D(join(C, <<"p">>)), F(join(join(C, <<"p">>), <<"c">>), base + 4)}
                    [] OTHER         -> {})
            \cup (CASE L.iq = "file"     -> {F(join(C, <<"q">>), base + 2)}
                    [] L.iq = "emptydir" -> {D(join(C, <<"q">>))}
                    [] OTHER             -> {})
            \cup (IF L.im = "file" THEN {F(join(C, <<".", "m">>), base + 3)} ELSE {})
          ELSE {})
    \cup (CASE L.op = "file"     -> {F(join(P, <<"p">>), base + 5)}
            [] L.op = "emptydir" -> {D(join(P, <<"p">>))}
            [] L.op = "dir"      -> {D(join(P, <<"p">>)), F(join(join(P, <<"p">>), <<"d">>), base + 7)}
            [] OTHER             -> {})
    \cup (CASE L.oq = "file"     -> {F(join(P, <<"q">>), base + 6)}
            [] L.oq = "emptydir" -> {D(join(P, <<"q">>))}
            [] OTHER             -> {})

Layouts ==
    {L \in [k  : {"none", "file", "dir"},
            ip : {"none", "file", "dir"},
            iq : {"none", "file", "emptydir"},
            im : {"none", "file"},
            op : {"none", "file", "emptydir", "dir"},
            oq : {"none", "file", "emptydir"}] :
        L.k # "dir" => (L.ip = "none" /\ L.iq = "none" /\ L.im = "none")}

Simple == [k |-> "dir", ip |-> "file", iq |-> "none", im |-> "none", op |-> "none", oq |-> "none"]
Bare   == [k |-> "none", ip |-> "none", iq |-> "none", im |-> "none", op |-> "none", oq |-> "none"]

Extras == {{}, {"x"}, {"t"}, {"h"}, {"n"}, {"x", "t", "h", "n"}}

MkFs(pairs) == [p \in {e[1] : e \in pairs} |-> (CHOOSE e \in pairs : e[1] = p)[2]]

StartTree(L, w, extra) ==
    MkFs({D(<<>>), D(TopDir)}
         \cup VideoEntries(VideoV, L, 0)
         \cup (CASE w = "simple" -> VideoEntries(VideoW, Simple, 10)
                 [] w = "bare"   -> VideoEntries(VideoW, Bare, 10)
                 [] OTHER        -> {})
         \cup (IF "x" \in extra THEN {F(RootFile, 41)} ELSE {})
         \cup (IF "n" \in extra THEN {F(PlainFile, 42)} ELSE {})
         \cup (IF "h" \in extra THEN VideoEntries(HiddenVid, Simple, 20) ELSE {})
         \cup (IF "t" \in extra THEN {D(HiddenTop)} \cup VideoEntries(HiddenTopVideo, Simple, 30) ELSE {}))

NoCall(f) == [path |-> <<>>, pre |-> f, order |-> <<>>, moved |-> 0, err |-> "nocall"]

InitFlatten ==
    /\ \E L \in Layouts, w \in {"none", "simple", "bare"}, extra \in Extras :
          fs = StartTree(L, w, extra)
    /\ fs0 = fs
    /\ pc = "start"
    /\ topList = <<>>
    /\ videoList = <<>>
    /\ calls = <<>>
    /\ last = NoCall(fs)

(***************************************************************************)
(* remove_camera_folder.py: the __main__ script                            *)
(***************************************************************************)
\* top_level_directories = glob.glob(os.path.join(root_directory, "*"))
GlobTopLevel ==
    /\ pc = "start"
    /\ \E order \in Perms(glob(fs, <<>>)) : topList' = order
    /\ pc' = "top"
    /\ UNCHANGED <<fs, videoList, calls, last, fs0, pathVars, tensorVars, reconVars>>

\* if not os.path.isdir(current_top_level_directory): continue
SkipNonDirectory ==
    /\ pc = "top"
    /\ topList # <<>>
    /\ ~isdir(fs, Head(topList))
    /\ topList' = Tail(topList)
    /\ UNCHANGED <<fs, pc, videoList, calls, last, fs0, pathVars, tensorVars, reconVars>>

\* video_paths_list = sorted(glob(...)), filtered to the directories
ListVideos ==
    /\ pc = "top"
    /\ topList # <<>>
    /\ isdir(fs, Head(topList))
    /\ videoList' = only_directories(fs, sorted(glob(fs, Head(topList))))
    /\ pc' = "video"
    /\ UNCHANGED <<fs, topList, calls, last, fs0, pathVars, tensorVars, reconVars>>

\* remove_camera_folder(current_video_path)
CallRemoveCameraFolder ==
    /\ pc = "video"
    /\ videoList # <<>>
    /\ LET P == Head(videoList) IN
       \E order \in all_files_orders(fs, P) :
          LET r == remove_camera_folder(fs, P, order) IN
          /\ fs' = r.fs
          /\ calls' = Append(calls, [path |-> P, ok |-> r.ok])
          /\ last' = [path |-> P, pre |-> fs, order |-> order, moved |-> r.moved, err |-> r.err]
          /\ IF r.ok THEN /\ videoList' = Tail(videoList)
                          /\ pc' = pc
             ELSE /\ videoList' = videoList
                  /\ pc' = "crashed"     \* nothing catches the exception
    /\ UNCHANGED <<topList, fs0, pathVars, tensorVars, reconVars>>

\* the inner for loop is exhausted
NextTopLevel ==
    /\ pc = "video"
    /\ videoList = <<>>
    /\ topList' = Tail(topList)
    /\ pc' = "top"
    /\ UNCHANGED <<fs, videoList, calls, last, fs0, pathVars, tensorVars, reconVars>>

\* the outer for loop is exhausted: the script ends
Finish ==
    /\ pc = "top"
    /\ topList = <<>>
    /\ pc' = "done"
    /\ UNCHANGED <<fs, topList, videoList, calls, last, fs0, pathVars, tensorVars, reconVars>>

(***************************************************************************)
(* Each specification runs one part of the repository; the variables of    *)
(* the other parts stay at these values.                                   *)
(***************************************************************************)
IdleFlatten ==
    /\ fs = MkFs({D(<<>>)}) /\ fs0 = fs /\ pc = "idle" /\ topList = <<>>
    /\ videoList = <<>> /\ calls = <<>> /\ last = NoCall(fs)

IdlePaths ==
    /\ heap = <<>> /\ obsRef = 0 /\ outRef = 0 /\ output_root = <<>>
    /\ cwd = <<>> /\ dirs = {<<>>} /\ ppc = "idle" /\ obs0 = <<>>

IdleTensor ==
    /\ tensor = <<>> /\ tensor0 = <<>> /\ applied = 0

IdleRecon ==
    /\ rpc = "idle" /\ dataset_len = 0 /\ sampler = <<>> /\ batch_size = 1 /\ batch_idx = 0 /\ trace = <<>>

NextFlatten ==
    \/ GlobTopLevel
    \/ SkipNonDirectory
    \/ ListVideos
    \/ CallRemoveCameraFolder
    \/ NextTopLevel
    \/ Finish

InitFlattenAll == InitFlatten /\ IdlePaths /\ IdleTensor /\ IdleRecon

SpecFlatten == InitFlattenAll /\ [][NextFlatten]_vars

(***************************************************************************)
(* remove_camera_folder.py: properties                                     *)
(***************************************************************************)
\* the subtree of f1 at p1 is the subtree of f2 at p2: same kinds, same contents
SameTree(f1, p1, f2, p2) ==
    /\ Exists(f1, p1)
    /\ Exists(f2, p2)
    /\ \A q \in Tree(f1, p1) : /\ Exists(f2, Rebase(q, p1, p2))
                               /\ f2[Rebase(q, p1, p2)] = f1[q]
    /\ Cardinality(Tree(f2, p2)) = Cardinality(Tree(f1, p1))

LastCameraFolder == join(last.path, camera_folder_name)

\* C1: after remove_camera_folder(P) returned without error on a P that held a
\* camera folder 00000, every entry that was directly inside P/00000, whatever
\* its name, is directly inside P under the same basename with the same
\* content, and P/00000 no longer exists.
C1_EveryEntryMoved ==
    (last.err = "none" /\ isdir(last.pre, LastCameraFolder)) =>
        /\ \A e \in Children(last.pre, LastCameraFolder) :
              SameTree(last.pre, e, fs, join(last.path, basename(e)))
        /\ ~Exists(fs, LastCameraFolder)

\* C4: remove_camera_folder(P) on a P without a 00000 subfolder moves nothing,
\* leaves the tree as it was and raises; the script does not catch the error,
\* so a failed call is the last call the script ever makes.
C4_MissingCameraFolderRaises ==
    /\ \A i \in 1..Len(calls) : ~calls[i].ok => (i = Len(calls) /\ pc = "crashed")
    /\ pc = "crashed" => ~ENABLED NextFlatten
    /\ (last.err # "nocall" /\ ~isdir(last.pre, LastCameraFolder)) =>
          /\ last.err = "rmtree"
          /\ last.moved = 0
          /\ fs = last.pre
          /\ pc = "crashed"

\* C4 witness: a call on a video directory without camera folder has raised
\* while another video directory was still waiting in the list
C4_Witness ==
    /\ last.err = "rmtree"
    /\ ~Exists(last.pre, LastCameraFolder)
    /\ pc = "crashed"
    /\ Len(videoList) >= 2
    /\ videoList[1] = last.path

\* C8: when a rename fails part-way, the entries renamed before the failure are
\* in P, the entries not yet renamed are in P/00000, P/00000 is still there,
\* and no file that existed before the call has been destroyed.
C8_PartialFailureDestroysNothing ==
    last.err = "rename" =>
        /\ \A i \in 1..last.moved :
              SameTree(last.pre, last.order[i], fs, join(last.path, basename(last.order[i])))
        /\ \A i \in (last.moved + 1)..Len(last.order) :
              SameTree(last.pre, last.order[i], fs, last.order[i])
        /\ isdir(fs, LastCameraFolder)
        /\ \A q \in DOMAIN last.pre :
              last.pre[q].kind = "file" => \E q2 \in DOMAIN fs : fs[q2] = last.pre[q]

\* the directories exactly two levels below the root when the script started
VideoDirectories == {p \in DOMAIN fs0 : Len(p) = 2 /\ fs0[p].kind = "dir"}

\* C9: a run without filesystem error calls remove_camera_folder exactly once
\* on each directory two levels below the root and on nothing else, leaves the
\* non-directories of the first two levels unchanged, and processes the video
\* directories of one top-level directory in sorted path order.
C9_EveryVideoDirectoryOnce ==
    pc = "done" =>
        /\ {calls[i].path : i \in 1..Len(calls)} = VideoDirectories
        /\ \A i, j \in 1..Len(calls) : calls[i].path = calls[j].path => i = j
        /\ \A p \in DOMAIN fs0 :
              (Len(p) <= 2 /\ fs0[p].kind = "file") => (Exists(fs, p) /\ fs[p] = fs0[p])
        /\ \A i, j \in 1..Len(calls) :
              (i < j /\ calls[i].path[1] = calls[j].path[1])
                  => StrLess(PathStr(calls[i].path), PathStr(calls[j].path))

(***************************************************************************)
(* dataset creator: Python strings and posixpath                           *)
(***************************************************************************)
sep == "/"

startswith(s, pre) == IsPrefix(pre, s)
endswith(s, c)     == Len(s) > 0 /\ s[Len(s)] = c

\* s.split(os.sep)
RECURSIVE split_from(_, _, _)
split_from(s, current, done) ==
    IF s = <<>> THEN Append(done, current)
    ELSE IF Head(s) = sep THEN split_from(Tail(s), <<>>, Append(done, current))
    ELSE split_from(Tail(s), Append(current, Head(s)), done)

split(s) == split_from(s, <<>>, <<>>)

\* "/".join(comps)
RECURSIVE sep_join(_)
sep_join(comps) ==
    IF comps = <<>> THEN <<>>
    ELSE IF Len(comps) = 1 THEN comps[1]
    ELSE comps[1] \o <<sep>> \o sep_join(Tail(comps))

\* the loop of posixpath.normpath over the components
RECURSIVE normpath_comps(_, _, _)
normpath_comps(comps, new_comps, initial_slashes) ==
    IF comps = <<>> THEN new_comps
    ELSE LET comp == Head(comps) IN
         IF comp = <<>> \/ comp = <<".">> THEN normpath_comps(Tail(comps), new_comps, initial_slashes)
         ELSE IF \/ comp # <<".", ".">>
                 \/ (initial_slashes = 0 /\ new_comps = <<>>)
                 \/ (new_comps # <<>> /\ new_comps[Len(new_comps)] = <<".", ".">>)
              THEN normpath_comps(Tail(comps), Append(new_comps, comp), initial_slashes)
         ELSE IF new_comps # <<>>
              THEN normpath_comps(Tail(comps), SubSeq(new_comps, 1, Len(new_comps) - 1), initial_slashes)
         ELSE normpath_comps(Tail(comps), new_comps, initial_slashes)

\* os.path.normpath(path)
normpath(path) ==
    IF path = <<>> THEN <<".">>
    ELSE LET initial_slashes ==
                 IF ~startswith(path, <<sep>>) THEN 0
                 ELSE IF startswith(path, <<sep, sep>>) /\ ~startswith(path, <<sep, sep, sep>>) THEN 2
                 ELSE 1
             comps == normpath_comps(split(path), <<>>, initial_slashes)
             body  == sep_join(comps)
             out   == [i \in 1..initial_slashes |-> sep] \o body
         IN  IF out = <<>> THEN <<".">> ELSE out

\* os.path.join(a, b)
os_path_join2(a, b) ==
    IF startswith(b, <<sep>>) THEN b
    ELSE IF a = <<>> \/ endswith(a, sep) THEN a \o b
    ELSE a \o <<sep>> \o b

\* os.path.join(*parts), parts not empty
RECURSIVE os_path_join_from(_, _)
os_path_join_from(a, rest) ==
    IF rest = <<>> THEN a ELSE os_path_join_from(os_path_join2(a, Head(rest)), Tail(rest))

\* os.path.join(*parts): a TypeError when parts is empty
os_path_join(parts) ==
    IF parts = <<>> THEN [ok |-> FALSE, value |-> <<>>]
    ELSE [ok |-> TRUE, value |-> os_path_join_from(Head(parts), Tail(parts))]

\* parts[-3:] and parts[:-1]
last_three(parts) == SubSeq(parts, IF Len(parts) > 3 THEN Len(parts) - 2 ELSE 1, Len(parts))
all_but_last(parts) == SubSeq(parts, 1, Len(parts) - 1)

(***************************************************************************)
(* dataset creator: numpy string arrays                                    *)
(***************************************************************************)
RECURSIVE MaxLen(_)
MaxLen(strings) ==
    IF strings = <<>> THEN 0
    ELSE LET m == MaxLen(Tail(strings)) IN IF Len(Head(strings)) > m THEN Len(Head(strings)) ELSE m

\* np.array(strings): dtype "U" is the fixed-width unicode type, as wide as the
\* longest element; dtype "O" holds references to Python strings
ndarray(strings, dtype) ==
    [dtype |-> dtype, itemsize |-> IF dtype = "U" THEN MaxLen(strings) ELSE 0,
     shape |-> <<1, Len(strings), 1>>, data |-> strings]

\* the value an element holds after element[...] = value: a fixed-width
\* array keeps the first itemsize characters
cast(arr, value) ==
    IF arr.dtype = "U" THEN SubSeq(value, 1, Min(arr.itemsize, Len(value))) ELSE value

\* mutant of ndarray_copy: the .copy() is dropped, the loop writes the caller's array
ndarray_alias(h, ref) == [heap |-> h, ref |-> ref]

\* array.copy(): a new array on the heap; [heap, ref]
ndarray_copy(h, ref) == [heap |-> Append(h, h[ref]), ref |-> Len(h) + 1]

\* the path written for one observation path (lines 64-67)
translated_path(root, current_path) ==
    LET path == last_three(split(normpath(current_path)))
    IN  os_path_join2(root, os_path_join(path).value)

\* output_paths_from_observations_paths(observations_paths): [heap, ref]
output_paths_from_observations_paths(h, root, observations_paths) ==
    LET c   == ndarray_copy(h, observations_paths)
        old == c.heap[c.ref]
        new == [old EXCEPT !.data = [i \in 1..Len(old.data) |->
                                        cast(old, translated_path(root, old.data[i]))]]
    IN  [heap |-> [c.heap EXCEPT ![c.ref] = new], ref |-> c.ref]

(***************************************************************************)
(* dataset creator: directories                                            *)
(***************************************************************************)
\* the absolute list of names a path string denotes in a process whose working
\* directory is wd
RECURSIVE resolve_from(_, _)
resolve_from(at, comps) ==
    IF comps = <<>> THEN at
    ELSE LET comp == Head(comps) IN
         IF comp = <<>> \/ comp = <<".">> THEN resolve_from(at, Tail(comps))
         ELSE IF comp = <<".", ".">>
              THEN resolve_from(IF at = <<>> THEN at ELSE SubSeq(at, 1, Len(at) - 1), Tail(comps))
         ELSE resolve_from(Append(at, comp), Tail(comps))

Resolve(wd, s) == resolve_from(IF startswith(s, <<sep>>) THEN <<>> ELSE wd, split(s))

Ancestors(p) == {SubSeq(p, 1, n) : n \in 0..Len(p)}

\* os.path.isdir(s)
os_path_isdir(ds, wd, s) == Resolve(wd, s) \in ds

\* Path(s).mkdir(exist_ok=True, parents=True)
mkdir_parents(ds, wd, s) == ds \cup Ancestors(Resolve(wd, s))

\* the body of the loop of make_folders_for_output for one path: [ok, dirs]
make_folder(ds, wd, current_path) ==
    IF os_path_isdir(ds, wd, current_path)
    THEN [ok |-> TRUE, dirs |-> mkdir_parents(ds, wd, current_path)]
    ELSE LET directory_path == os_path_join(all_but_last(split(normpath(current_path))))
         IN  IF ~directory_path.ok THEN [ok |-> FALSE, dirs |-> ds]
             ELSE [ok |-> TRUE, dirs |-> mkdir_parents(ds, wd, directory_path.value)]

\* make_folders_for_output(paths): [ok, dirs]
RECURSIVE make_folders_for_output(_, _, _)
make_folders_for_output(ds, wd, paths) ==
    IF paths = <<>> THEN [ok |-> TRUE, dirs |-> ds]
    ELSE LET r == make_folder(ds, wd, Head(paths))
         IN  IF r.ok THEN make_folders_for_output(r.dirs, wd, Tail(paths)) ELSE r

(***************************************************************************)
(* dataset creator: lines 158-159 of reconstruct_dataset on one batch      *)
(***************************************************************************)
MaxPaths == 2    \* observation paths in one batch

LoggingDirectories == {<<"o">>, <<"/", "o">>}   \* config["logging"][...]
DatasetName        == <<"t">>                   \* name
WorkingDirectories == {<<>>, <<<<"w">>>>}       \* "/" and "/w"

Prefixes == {<<>>, <<"/", "d", "/">>, <<"d", "/", "/">>, <<".", "/", "d", "/">>}
Tails    == {<<"s", "/", "c", "/", "f">>, <<"s", "/", "d", "/", "h">>}

\* .../sequence_name/camera_name/file_name
ObservationPaths == {pre \o tail : pre \in Prefixes, tail \in Tails}

PathLists == UNION {[1..n -> ObservationPaths] : n \in 1..MaxPaths}

\* the state after __init__ (lines 39-40) and after the dataloader produced a batch
InitPaths ==
    /\ \E dtype \in {"O", "U"}, strings \in PathLists : heap = <<ndarray(strings, dtype)>>
    /\ \E logging \in LoggingDirectories : output_root = os_path_join2(logging, DatasetName)
    /\ cwd \in WorkingDirectories
    /\ dirs = Ancestors(cwd) \cup Ancestors(Resolve(cwd, output_root))
    /\ obsRef = 1
    /\ outRef = 0
    /\ obs0 = heap[1]
    /\ ppc = "batch"

\* output_paths = self.output_paths_from_observations_paths(observations_paths)
OutputPaths ==
    /\ ppc = "batch"
    /\ LET r == output_paths_from_observations_paths(heap, output_root, obsRef) IN
       /\ heap' = r.heap
       /\ outRef' = r.ref
    /\ ppc' = "paths"
    /\ UNCHANGED <<obsRef, output_root, cwd, dirs, obs0, flattenVars, tensorVars, reconVars>>

\* self.make_folders_for_output(output_paths)
MakeFolders ==
    /\ ppc = "paths"
    /\ LET r == make_folders_for_output(dirs, cwd, heap[outRef].data) IN
       /\ dirs' = r.dirs
       /\ ppc' = IF r.ok THEN "folders" ELSE "crashed"
    /\ UNCHANGED <<heap, obsRef, outRef, output_root, cwd, obs0, flattenVars, tensorVars, reconVars>>

NextPaths ==
    \/ OutputPaths
    \/ MakeFolders

InitPathsAll == IdleFlatten /\ InitPaths /\ IdleTensor /\ IdleRecon

SpecPaths == InitPathsAll /\ [][NextPaths]_vars

(***************************************************************************)
(* dataset creator: path properties                                        *)
(***************************************************************************)
\* C2: an element .../sequence_name/camera_name/file_name becomes, at the same
\* array position, exactly output_root/sequence_name/camera_name/file_name,
\* the full string.
C2_OutputPathDerived ==
    ppc = "paths" =>
        \A i \in 1..Len(obs0.data) : \A pre \in Prefixes, tail \in Tails :
            obs0.data[i] = pre \o tail =>
                heap[outRef].data[i] = output_root \o <<sep>> \o tail

\* the directory a file written to path string p is placed in
ParentDirectory(p) == all_but_last(Resolve(cwd, p))

\* C3: after make_folders_for_output, the parent directory of every path of the
\* array exists, for absolute and for relative paths, and the call raised
\* nothing.
C3_ParentDirectoriesExist ==
    /\ ppc # "crashed"
    /\ ppc = "folders" =>
          \A i \in 1..Len(heap[outRef].data) : ParentDirectory(heap[outRef].data[i]) \in dirs

\* C6: output_paths_from_observations_paths leaves the caller's array as it
\* was and returns another array of the same shape.
C6_ArgumentNotModified ==
    ppc \in {"paths", "folders"} =>
        /\ heap[obsRef] = obs0
        /\ outRef # obsRef
        /\ heap[outRef].shape = heap[obsRef].shape

\* C6 witness: the call has been made and wrote paths that differ from the
\* observation paths
C6_Witness ==
    /\ ppc = "paths"
    /\ \A i \in 1..Len(obs0.data) : heap[outRef].data[i] # obs0.data[i]
    /\ Len(obs0.data) >= 2

(***************************************************************************)
(* dataset creator: use_first_observation                                  *)
(***************************************************************************)
MaxBatch        == 2    \* bs
MaxObservations == 3    \* observations_count
MaxFeatures     == 2    \* size of the trailing dimension
MaxBase         == 3    \* offsets of the entries the model returned
MaxApplications == 2    \* applications of use_first_observation to one tensor

\* the (0-based) indexes of a tensor of the given shape
RECURSIVE Largest(_)
Largest(shape) ==
    IF shape = <<>> THEN 0
    ELSE LET m == Largest(Tail(shape)) IN IF Head(shape) > m THEN Head(shape) ELSE m

Indexes(shape) == {idx \in [1..Len(shape) -> 0..Largest(shape)] :
                      \A d \in 1..Len(shape) : idx[d] < shape[d]}

\* tensor.size(dim)
size(t, dim) == t.shape[dim + 1]

\* mutant of first_slice: tensor[:, -1:], the last observation
last_slice(t) ==
    LET shape == [t.shape EXCEPT ![2] = Min(1, t.shape[2])]
    IN  [shape |-> shape,
         data  |-> [idx \in Indexes(shape) |-> t.data[[idx EXCEPT ![2] = t.shape[2] - 1]]]]

\* tensor[:, :1]
first_slice(t) ==
    LET shape == [t.shape EXCEPT ![2] = Min(1, t.shape[2])]
    IN  [shape |-> shape, data |-> [idx \in Indexes(shape) |-> t.data[idx]]]

\* tensor.repeat(repeats)
repeat(t, repeats) ==
    LET shape == [d \in 1..Len(t.shape) |-> t.shape[d] * repeats[d]]
    IN  [shape |-> shape,
         data  |-> [idx \in Indexes(shape) |->
                       t.data[[d \in 1..Len(shape) |-> idx[d] % t.shape[d]]]]]

\* use_first_observation(tensor)
use_first_observation(t) ==
    LET observations_count == size(t, 1)
        first   == first_slice(t)
        repeats == [[d \in 1..Len(first.shape) |-> 1] EXCEPT ![2] = observations_count]
    IN  repeat(first, repeats)

\* a (bs, observations_count, features) tensor whose entries all differ: what
\* holds of the routing of its entries holds of every tensor of that shape
DistinctTensor(shape, base) ==
    [shape |-> shape,
     data  |-> [idx \in Indexes(shape) |->
                   base + (idx[1] * shape[2] + idx[2]) * shape[3] + idx[3]]]

InitTensor ==
    /\ \E bs \in 1..MaxBatch, oc \in 1..MaxObservations, k \in 1..MaxFeatures, base \in 0..MaxBase :
          tensor = DistinctTensor(<<bs, oc, k>>, base)
    /\ tensor0 = tensor
    /\ applied = 0

\* scene_encoding[key] = self.use_first_observation(scene_encoding[key])
UseFirstObservation ==
    /\ applied < MaxApplications
    /\ tensor' = use_first_observation(tensor)
    /\ applied' = applied + 1
    /\ UNCHANGED <<tensor0, flattenVars, pathVars, reconVars>>

NextTensor == UseFirstObservation

InitTensorAll == IdleFlatten /\ IdlePaths /\ InitTensor /\ IdleRecon

SpecTensor == InitTensorAll /\ [][NextTensor]_vars

\* C7: use_first_observation(T) has the shape of T and holds T[b, 0] at every
\* [b, t]; applying it again changes nothing.
C7_FirstObservationEverywhere ==
    applied >= 1 =>
        /\ tensor.shape = tensor0.shape
        /\ \A idx \in Indexes(tensor0.shape) :
              tensor.data[idx] = tensor0.data[[idx EXCEPT ![2] = 0]]
        /\ use_first_observation(tensor) = tensor

\* C7 witness: the function was applied twice to a tensor with several
\* observations, and the result is not the tensor the model returned
C7_Witness ==
    /\ applied = 2
    /\ tensor0.shape[2] >= 2
    /\ tensor0.shape[1] >= 2
    /\ tensor # tensor0

(***************************************************************************)
(* dataset creator: reconstruct_dataset                                    *)
(***************************************************************************)
MaxDataset   == 4    \* items of the dataset
MaxBatchSize == 3    \* config batch_size

\* mutant of shuffle: DataLoader(..., shuffle=True, ...)
shuffle_enabled == TRUE

\* DataLoader(..., shuffle=False, ...)
shuffle == FALSE

\* the orders in which the dataloader's sampler may draw n items: dataset
\* order without shuffling, any order with it
sampler_orders(n) ==
    IF shuffle THEN Perms(0..(n - 1)) ELSE {[i \in 1..n |-> i - 1]}

\* len(self.dataloader), drop_last being False
batches_count(n, bsize) == (n + bsize - 1) \div bsize

\* the items of batch number i (0-based)
batch_items(order, bsize, i) == SubSeq(order, i * bsize + 1, Min(Len(order), (i + 1) * bsize))

InitRecon ==
    /\ dataset_len \in 0..MaxDataset
    /\ batch_size \in 1..MaxBatchSize
    /\ sampler \in sampler_orders(dataset_len)
    /\ batch_idx = 0
    /\ trace = <<>>
    /\ rpc = "next"

CurrentBatch == batch_items(sampler, batch_size, batch_idx)

\* for batch_idx, batch in enumerate(self.dataloader): a batch is drawn
NextBatch ==
    /\ rpc = "next"
    /\ batch_idx < batches_count(dataset_len, batch_size)
    /\ rpc' = "encode"
    /\ UNCHANGED <<dataset_len, sampler, batch_size, batch_idx, trace, flattenVars, pathVars, tensorVars>>

\* scene_encoding = model(..., mode="observations_scene_encoding_only")
Encode ==
    /\ rpc = "encode"
    /\ rpc' = "render"
    /\ trace' = Append(trace, <<"encode", CurrentBatch>>)
    /\ UNCHANGED <<dataset_len, sampler, batch_size, batch_idx, flattenVars, pathVars, tensorVars>>

\* render_results = model.module.render_full_frame_from_scene_encoding(...)
Render ==
    /\ rpc = "render"
    /\ rpc' = "paths"
    /\ trace' = Append(trace, <<"render", CurrentBatch>>)
    /\ UNCHANGED <<dataset_len, sampler, batch_size, batch_idx, flattenVars, pathVars, tensorVars>>

\* output_paths = self.output_paths_from_observations_paths(observations_paths)
DerivePaths ==
    /\ rpc = "paths"
    /\ rpc' = "folders"
    /\ trace' = Append(trace, <<"paths", CurrentBatch>>)
    /\ UNCHANGED <<dataset_len, sampler, batch_size, batch_idx, flattenVars, pathVars, tensorVars>>

\* self.make_folders_for_output(output_paths)
CreateFolders ==
    /\ rpc = "folders"
    /\ rpc' = "save"
    /\ trace' = Append(trace, <<"folders", CurrentBatch>>)
    /\ UNCHANGED <<dataset_len, sampler, batch_size, batch_idx, flattenVars, pathVars, tensorVars>>

\* self.image_helper.save_reconstructed_images_to_paths(render_results, output_paths)
SaveImages ==
    /\ rpc = "save"
    /\ rpc' = "next"
    /\ trace' = Append(trace, <<"save", CurrentBatch>>)
    /\ batch_idx' = batch_idx + 1
    /\ UNCHANGED <<dataset_len, sampler, batch_size, flattenVars, pathVars, tensorVars>>

\* a call made for the batch raises: nothing in reconstruct_dataset catches it
Raise ==
    /\ rpc \in {"encode", "render", "paths", "folders", "save"}
    /\ rpc' = "crashed"
    /\ UNCHANGED <<dataset_len, sampler, batch_size, batch_idx, trace, flattenVars, pathVars, tensorVars>>

\* the loop is exhausted: subprocess.run(rsync_args), then return
Rsync ==
    /\ rpc = "next"
    /\ batch_idx >= batches_count(dataset_len, batch_size)
    /\ rpc' = "done"
    /\ trace' = Append(trace, <<"rsync", <<>>>>)
    /\ UNCHANGED <<dataset_len, sampler, batch_size, batch_idx, flattenVars, pathVars, tensorVars>>

Next ==
    \/ NextBatch
    \/ Encode
    \/ Render
    \/ DerivePaths
    \/ CreateFolders
    \/ SaveImages
    \/ Raise
    \/ Rsync

Init == IdleFlatten /\ IdlePaths /\ IdleTensor /\ InitRecon

Spec == Init /\ [][Next]_vars

\* the calls a complete run makes for the batches i, i+1, ..., in dataset order
RECURSIVE ExpectedFrom(_)
ExpectedFrom(i) ==
    IF i >= batches_count(dataset_len, batch_size) THEN <<<<"rsync", <<>>>>>>
    ELSE LET items == [k \in 1..(Min(dataset_len, (i + 1) * batch_size) - i * batch_size) |->
                          i * batch_size + k - 1]
         IN  <<<<"encode", items>>, <<"render", items>>, <<"paths", items>>,
               <<"folders", items>>, <<"save", items>>>> \o ExpectedFrom(i + 1)

\* C5: the batches are handled in dataset order, each by scene encoding,
\* rendering, path derivation, folder creation and image saving in this order,
\* and rsync is called exactly once, after the last batch was saved (also when
\* there is no batch).
C5_BatchesInOrderThenRsync ==
    /\ IsPrefix(trace, ExpectedFrom(0))
    /\ rpc = "done" => trace = ExpectedFrom(0)
    /\ Cardinality({i \in 1..Len(trace) : trace[i][1] = "rsync"}) <= 1

\* C5 witness: a run over several batches, the last one partial, has returned
C5_Witness ==
    /\ rpc = "done"
    /\ batches_count(dataset_len, batch_size) >= 2
    /\ dataset_len % batch_size # 0
    /\ batch_size >= 2

====
